---- MODULE Spec2Model ----
(***************************************************************************)
(* State-machine model of versioning_fs/__init__.py: VersionInfoMixIn,     *)
(* VersioningFS and VersionedFile.  The wrapped filesystem, the backup     *)
(* root (one rdiff-backup repository per hashed path), the scratch area    *)
(* and the open handles of the client threads are the state.               *)
(***************************************************************************)
EXTENDS Integers, Sequences, FiniteSets, TLC

\* ------------------------------------------------------------------ bounds
\* largest value of the commit clock / testing counter
MaxTime == 10
\* largest ordinal a caller passes as open(..., version=k)
MaxArg == 3

\* ------------------------------------------------------------ value spaces
Threads == {"t1", "t2"}
NoThread == "none"

\* paths are sequences of characters; "/" separates components
PathA == <<"a">>
PathB == <<"b">>
Paths == {PathA, PathB}
\* what the single client passes: one file, also written with a leading slash
InputPaths == {PathA, <<"/">> \o PathA}

\* characters outside ASCII (dropped by encode('ascii', 'ignore'))
NonAscii == {"U+00E9"}

\* file contents: the empty file and two different texts
Empty == ""
Data == {"v1", "v2"}
Absent == "<absent>"

\* two file names that differ in a character outside ASCII
KeyPaths == {PathA, PathA \o <<"U+00E9">>}

\* what the wrapped filesystem holds at the path of a directory
Dir == "<dir>"

\* two directories and the files the client keeps in them; the file d/d
\* repeats the name of its directory
DirD == <<"d">>
DirE == <<"e">>
Dirs == {DirD, DirE}
FileNames == {<<"d">>, <<"f">>}
DirFiles == {d \o <<"/">> \o n : d \in Dirs, n \in FileNames}

\* open modes as character sequences
Modes == {<<"r">>, <<"w">>, <<"a">>}

\* names random.randrange can give a restore directory
TempNames == {"tmp1", "tmp2"}
NoTemp == "none"

\* values the commit clock can have when the filesystem object is built
StartTimes == {8, 9}
\* the value it has when the concurrent clients start
LateStartTimes == {9}

VARIABLES
    files,      \* wrapped filesystem: existing path -> content, or Dir
    snaps,      \* backup root: existing history directory -> its increments
    staging,    \* scratch area: staging source directories that exist
    scratch,    \* scratch area: restore directories that exist
    time,       \* wall clock in seconds, or testing['time'] in testing mode
    testing,    \* whether the instance was built with testing=...
    lock,       \* owner of the instance lock (self._lock), or NoThread
    th,         \* per client thread: its handle and position in close()
    track,      \* whether handles keep the history variables v0 and c0
    tried       \* history variable: the paths snapshot() was called with

vars ==
    <<files, snaps, staging, scratch, time, testing, lock, th, track, tried>>

\* the variables that only keep notes about the run
notes == <<track, tried>>

\* the value of tried in the specifications that do not keep it
NotRecorded == {<<"?">>}

\* ------------------------------------------------------- string helpers
HasChar(s, c) == \E i \in 1..Len(s) : s[i] = c

\* '%s' % n / str(n): the decimal digits of a natural number
RECURSIVE ToStr(_)
ToStr(n) == IF n < 10 THEN <<n>> ELSE ToStr(n \div 10) \o <<n % 10>>

\* int(s): the number a digit string denotes
RECURSIVE FromStr(_)
FromStr(s) ==
    IF Len(s) = 0 THEN 0
    ELSE 10 * FromStr(SubSeq(s, 1, Len(s) - 1)) + s[Len(s)]

\* Python's < on str, for digit strings: lexicographic, a prefix is smaller
RECURSIVE StrLess(_, _)
StrLess(a, b) ==
    IF Len(a) = 0 THEN Len(b) > 0
    ELSE IF Len(b) = 0 THEN FALSE
    ELSE IF a[1] # b[1] THEN a[1] < b[1]
    ELSE StrLess(Tail(a), Tail(b))

\* insert x into an ascending list, after the entries equal to it
RECURSIVE Insert(_, _)
Insert(x, s) ==
    IF Len(s) = 0 THEN <<x>>
    ELSE IF StrLess(x, s[1]) THEN <<x>> \o s
    ELSE <<s[1]>> \o Insert(x, Tail(s))

\* sorted(versions) on a list of str: the sorted tail is computed once,
\* then the first entry is inserted
RECURSIVE sorted(_)
sorted(s) ==
    IF Len(s) = 0 THEN <<>>
    ELSE CHOOSE r \in {Insert(s[1], rest) : rest \in {sorted(Tail(s))}} : TRUE

\* ---------------------------------------------------------- path helpers
\* fs.path.relpath: strip the leading slashes
RECURSIVE relpath(_)
relpath(p) == IF Len(p) > 0 /\ p[1] = "/" THEN relpath(Tail(p)) ELSE p

IsAscii(c) == c \notin NonAscii

\* hash_path: sha256 of the path with its non-ASCII characters dropped; the
\* digest is kept as the string it was computed from (sha256 as injective)
hash_path(p) == SelectSeq(relpath(p), IsAscii)

\* snapshot_snap_path: <backup>/<hash>, named by its last component
snapshot_snap_path(p) == hash_path(relpath(p))

\* snapshot_source: <tmp>/<hash>.info.backup, named by the hash
snapshot_source(p) == hash_path(relpath(p))

\* os.path.join(dest_path, dest_hash) of a restore: a path in the scratch area
ScratchFile(name, p) == <<"/", "tmp", "/", name, "/">> \o hash_path(p)

\* ------------------------------------------------------ VersionInfoMixIn
has_snapshot(p) == snapshot_snap_path(p) \in DOMAIN snaps

\* stdout of rdiff-backup --parsable-output -l <snap_dir>: one line per
\* increment, nothing when the directory is missing or holds no repository
Listing(p) ==
    IF snapshot_snap_path(p) \in DOMAIN snaps
    THEN [i \in 1..Len(snaps[snapshot_snap_path(p)]) |->
              ToStr(snaps[snapshot_snap_path(p)][i].id)]
    ELSE <<>>

list_versions(p) == sorted(Listing(p))

version(p) == Len(list_versions(p))

\* ------------------------------------------------------------- functions
Drop(f, k) == [x \in DOMAIN f \ {k} |-> f[x]]

Put(f, k, v) == (k :> v) @@ f

\* --------------------------------------------------------- thread records
\* pc: idle (no call in progress, no handle), open (holds a handle), and the
\* positions inside VersionedFile.close: commit1 / commit2 (about to call
\* snapshot the first / second time), insnap1 / insnap2 (inside snapshot,
\* lock held), sleep (inside time.sleep(1)).
\* op, ret, given, arg, tool record the last call and its outcome; v0 and c0
\* are history variables: the version and the live content of the path
\* before the handle was opened.
NoHandle ==
    [pc |-> "idle", op |-> "none", ret |-> "none", path |-> <<>>,
     lpath |-> <<>>, mode |-> <<>>, temp |-> FALSE, remove |-> NoTemp,
     modified |-> FALSE, closed |-> FALSE, data |-> Empty, tries |-> 0,
     tool |-> FALSE, given |-> FALSE, arg |-> 0, v0 |-> 0, c0 |-> Absent]

Idle(t) == th[t].pc = "idle"

Content(p) == IF p \in DOMAIN files THEN files[p] ELSE Absent

\* a call of thread t that ends without leaving a handle
Returned(t, op, ret) ==
    th' = [th EXCEPT ![t] = [NoHandle EXCEPT !.op = op, !.ret = ret]]

\* the handle an open() call makes: what was asked and what was there
Call(p, m, given, k) ==
    [NoHandle EXCEPT !.op = "open", !.lpath = relpath(p), !.mode = m,
                     !.given = given, !.arg = k,
                     !.v0 = IF track THEN version(p) ELSE 0,
                     !.c0 = IF track THEN Content(relpath(p)) ELSE Absent]

\* a call on path p that returned normally; v0 keeps the version p had
Done(t, op, p) ==
    th' = [th EXCEPT ![t] =
             IF track
             THEN [NoHandle EXCEPT !.op = op, !.ret = "ok",
                                   !.lpath = relpath(p), !.v0 = version(p)]
             ELSE [NoHandle EXCEPT !.op = op, !.ret = "ok"]]

\* open(path, version=k) ended without a handle
Refused(t, p, given, k, ret) ==
    th' = [th EXCEPT ![t] = [NoHandle EXCEPT !.op = "open", !.ret = ret,
                                !.lpath = relpath(p), !.given = given,
                                !.arg = k]]

\* ------------------------------------------------- wrapped filesystem
isdir(p) == p \in DOMAIN files /\ files[p] = Dir

isfile(p) == p \in DOMAIN files /\ files[p] # Dir

\* the path of the directory a path lies in; <<>> is the root
RECURSIVE dirname(_)
dirname(p) ==
    IF Len(p) = 0 THEN <<>>
    ELSE IF p[Len(p)] = "/" THEN SubSeq(p, 1, Len(p) - 1)
    ELSE dirname(SubSeq(p, 1, Len(p) - 1))

ParentExists(p) == dirname(p) = <<>> \/ isdir(dirname(p))

StartsWith(s, pre) ==
    Len(s) >= Len(pre) /\ SubSeq(s, 1, Len(pre)) = pre

\* path p lies in directory d or below it
Under(d, p) == StartsWith(p, d \o <<"/">>)

\* walkfiles(d): every file in d and below
walkfiles(d) == {p \in DOMAIN files : isfile(p) /\ Under(d, p)}

isdirempty(d) == ~\E p \in DOMAIN files : Under(d, p)

\* open of the wrapped filesystem: the directory of the file must exist,
\* r and r+ need the file
BaseOpenFails(p, m) ==
    \/ ~ParentExists(relpath(p))
    \/ /\ relpath(p) \notin DOMAIN files
       /\ ~HasChar(m, "w")
       /\ ~HasChar(m, "a")

\* w creates or truncates, a creates
BaseOpenFiles(p, m) ==
    IF HasChar(m, "w") \/ relpath(p) \notin DOMAIN files
    THEN Put(files, relpath(p), Empty)
    ELSE files

\* a handle takes writes when its mode has w, a or +
Writable(m) == HasChar(m, "w") \/ HasChar(m, "a") \/ HasChar(m, "+")

\* ------------------------------------------------------ VersioningFS.open
\* lines 99-106 and 112-119: open the live file and wrap it
OpenLive(t, p, m, given, k) ==
    /\ UNCHANGED <<snaps, staging, scratch, time, testing, lock, notes>>
    /\ IF BaseOpenFails(p, m)
       THEN /\ Refused(t, p, given, k, "ResourceNotFoundError")
            /\ UNCHANGED files
       ELSE /\ th' = [th EXCEPT ![t] =
                        [Call(p, m, given, k) EXCEPT
                            !.pc = "open", !.ret = "handle",
                            !.path = relpath(p), !.temp = FALSE]]
            /\ files' = BaseOpenFiles(p, m)

\* line 108
VersionTooLow_Zero(k) == k < 0

VersionTooLow(k) == k < 1

\* line 111
IsLatest_Previous(p, k) == k = version(p) - 1

IsLatest(p, k) == k = version(p)

\* line 124
VersionTooHigh(p, k) == k > Len(list_versions(p))

\* rdiff-backup --restore-as-of <time>: the repository's state at the
\* newest increment that is not later than <time>
RestoreAsOf(repo, req) ==
    LET T == FromStr(req)
        old == {i \in 1..Len(repo) : repo[i].id <= T}
        i == CHOOSE i \in old : \A j \in old : repo[j].id <= repo[i].id
    IN repo[i].data

\* line 130: a name no restore directory has yet
FreshName == CHOOSE n \in TempNames \ scratch : TRUE

\* lines 121-144: restore the requested version into the scratch area
OpenRestored(t, p, m, k) ==
    LET requested_version == list_versions(p)[k]
        temp_name == FreshName
    IN /\ TempNames \ scratch # {}
       /\ scratch' = scratch \cup {temp_name}
       /\ th' = [th EXCEPT ![t] =
                   [Call(p, m, TRUE, k) EXCEPT
                       !.pc = "open", !.ret = "handle", !.tool = TRUE,
                       !.path = ScratchFile(temp_name, p),
                       !.temp = TRUE, !.remove = temp_name,
                       !.data = RestoreAsOf(snaps[snapshot_snap_path(p)],
                                            requested_version)]]
       /\ UNCHANGED <<files, snaps, staging, time, testing, lock, notes>>

\* the call raises or returns without a handle
OpenEnds(t, p, m, k, ret) ==
    /\ Refused(t, p, TRUE, k, ret)
    /\ UNCHANGED <<files, snaps, staging, scratch, time, testing, lock,
                   notes>>

\* open(path, mode) with version=None
OpenLatest(t, p, m) ==
    /\ Idle(t)
    /\ OpenLive(t, p, m, FALSE, 0)

\* open(path, mode, version=k)
OpenVersion(t, p, m, k) ==
    /\ Idle(t)
    /\ IF VersionTooLow(k)
       THEN OpenEnds(t, p, m, k, "ResourceNotFoundError")
       ELSE IF IsLatest(p, k)
       THEN OpenLive(t, p, m, TRUE, k)
       ELSE IF VersionTooHigh(p, k)
       THEN OpenEnds(t, p, m, k, "ResourceNotFoundError")
       ELSE IF ~HasChar(m, "w")
       THEN OpenRestored(t, p, m, k)
       ELSE OpenEnds(t, p, m, k, "None")

\* ------------------------------------------------------- VersionedFile
\* where the bytes of a handle go: the restored copy or the live file
Written(t, d) ==
    IF th[t].temp
    THEN /\ th' = [th EXCEPT ![t].modified = TRUE, ![t].data = d]
         /\ UNCHANGED files
    ELSE /\ th' = [th EXCEPT ![t].modified = TRUE]
         /\ files' = IF th[t].path \in DOMAIN files
                     THEN [files EXCEPT ![th[t].path] = d]
                     ELSE files

\* write(): FileWrapper checks the mode, then _write sets the flag
Write(t, d) ==
    /\ th[t].pc = "open"
    /\ Writable(th[t].mode)
    /\ Written(t, d)
    /\ UNCHANGED <<snaps, staging, scratch, time, testing, lock, notes>>

\* writelines(): the flag is set first; the lines are then written one by
\* one (none when the list is empty, IOError when the mode forbids it)
WriteLines(t, lines) ==
    /\ th[t].pc = "open"
    /\ IF Len(lines) > 0 /\ Writable(th[t].mode)
       THEN Written(t, lines[Len(lines)])
       ELSE /\ th' = [th EXCEPT ![t].modified = TRUE]
            /\ UNCHANGED files
    /\ UNCHANGED <<snaps, staging, scratch, time, testing, lock, notes>>

\* lines 318-320: the restore directory of a temporary handle is deleted
ScratchAfterClose_Kept(t) == scratch

ScratchAfterClose(t) ==
    IF th[t].temp THEN scratch \ {th[t].remove} ELSE scratch

\* close(), lines 316-322: close the wrapped file, delete the restore
\* directory of a temporary handle, then commit when modified
Close(t) ==
    /\ th[t].pc = "open"
    /\ scratch' = ScratchAfterClose(t)
    /\ th' = IF th[t].modified
             THEN [th EXCEPT ![t].closed = TRUE, ![t].op = "close",
                             ![t].ret = "none", ![t].pc = "commit1"]
             ELSE [th EXCEPT ![t] = [NoHandle EXCEPT !.op = "close",
                                                    !.ret = "ok"]]
    /\ UNCHANGED <<files, snaps, staging, time, testing, lock, notes>>

\* ---------------------------------------------------- VersioningFS.snapshot
\* @synchronize, line 204: self._lock is a re-entrant lock
CanAcquire_Unsynchronized(t) == TRUE

CanAcquire(t) == lock \in {NoThread, t}

\* lines 213-218: recreate the staging directory, create the history
\* directory of a first commit
StagingAfterEnter(p) == staging \cup {snapshot_source(p)}

SnapsAfterEnter(p) ==
    IF has_snapshot(p) THEN snaps
    ELSE Put(snaps, snapshot_snap_path(p), <<>>)

\* lines 205-218: take the lock and prepare the directories
SnapshotEnter(t) ==
    /\ th[t].pc \in {"commit1", "commit2"}
    /\ CanAcquire(t)
    /\ time <= MaxTime
    /\ lock' = t
    /\ staging' = StagingAfterEnter(th[t].path)
    /\ snaps' = SnapsAfterEnter(th[t].path)
    /\ th' = [th EXCEPT ![t].tries = @ + 1,
                        ![t].pc = IF th[t].pc = "commit1" THEN "insnap1"
                                  ELSE "insnap2"]
    /\ tried' = IF tried = NotRecorded THEN tried
                ELSE tried \cup {relpath(th[t].path)}
    /\ UNCHANGED <<files, scratch, time, testing, track>>

InSnapshot(t) == th[t].pc \in {"insnap1", "insnap2"}

\* line 226: os.link raises OSError when the file to link is not there;
\* the lock is released, close() does not catch the error
SnapshotLinkFails(t) ==
    /\ InSnapshot(t)
    /\ th[t].path \notin DOMAIN files
    /\ lock' = NoThread
    /\ Returned(t, "close", "OSError")
    /\ UNCHANGED <<files, snaps, staging, scratch, time, testing, notes>>

\* what rdiff-backup writes to stderr
Silent == ""
CaseWarning == "Warning: could not determine case"
FatalError == "Fatal Error"

\* lines 243-248: any stderr but the ignored warning raises SnapshotError
Raises(stderr) == stderr # Silent /\ stderr # CaseWarning

\* the repository a commit folds the staged file into (rdiff-backup
\* creates a missing destination directory)
Repo(p) ==
    IF snapshot_snap_path(p) \in DOMAIN snaps
    THEN snaps[snapshot_snap_path(p)]
    ELSE <<>>

\* rdiff-backup refuses a session that is not later than the last one
\* ("Time of Last backup is not in the past")
TimeIsLater(p) ==
    IF Len(Repo(p)) = 0 THEN TRUE ELSE Repo(p)[Len(Repo(p))].id < time

\* lines 235-238: the testing counter is incremented per invocation
TimeAfterRun == IF testing THEN time + 1 ELSE time

\* the increment a successful session adds to the repository
RepoAfterCommit_Replace(p) ==
    IF Len(Repo(p)) = 0
    THEN <<[id |-> time, data |-> files[p]]>>
    ELSE [Repo(p) EXCEPT ![Len(Repo(p))] = [id |-> time, data |-> files[p]]]

RepoAfterCommit(p) == Append(Repo(p), [id |-> time, data |-> files[p]])

\* line 251
StagingAfterCommit(p) == staging \ {snapshot_source(p)}

\* lines 220-251, rdiff-backup succeeds (stderr empty or the ignored
\* warning): one increment more, staging directory removed, lock released
SnapshotCommit(t, stderr) ==
    /\ InSnapshot(t)
    /\ th[t].path \in DOMAIN files
    /\ TimeIsLater(th[t].path)
    /\ ~Raises(stderr)
    /\ snaps' = Put(snaps, snapshot_snap_path(th[t].path),
                    RepoAfterCommit(th[t].path))
    /\ time' = TimeAfterRun
    /\ staging' = StagingAfterCommit(th[t].path)
    /\ lock' = NoThread
    /\ Returned(t, "close", "ok")
    /\ UNCHANGED <<files, scratch, testing, notes>>

\* line 324 / 328: where close() goes when snapshot raised SnapshotError
AfterSnapshotError_RetryAgain(t) ==
    [th EXCEPT ![t].pc = "sleep"]

AfterSnapshotError(t) ==
    IF th[t].pc = "insnap1"
    THEN [th EXCEPT ![t].pc = "sleep"]
    ELSE [th EXCEPT ![t] = [NoHandle EXCEPT !.op = "close",
                                           !.ret = "SnapshotError"]]

\* lines 220-248, rdiff-backup fails: nothing is recorded, SnapshotError
\* leaves snapshot before line 251; the lock is released
SnapshotFails(t, stderr) ==
    /\ InSnapshot(t)
    /\ th[t].path \in DOMAIN files
    /\ Raises(stderr)
    /\ time' = TimeAfterRun
    /\ lock' = NoThread
    /\ th' = AfterSnapshotError(t)
    /\ UNCHANGED <<files, snaps, staging, scratch, testing, notes>>

\* line 327: time.sleep(1)
Sleep(t) ==
    /\ th[t].pc = "sleep"
    /\ ~testing => time < MaxTime
    /\ time' = IF testing THEN time ELSE time + 1
    /\ th' = [th EXCEPT ![t].pc = "commit2"]
    /\ UNCHANGED <<files, snaps, staging, scratch, testing, lock, notes>>

\* the wall clock advances
Tick ==
    /\ ~testing
    /\ time < MaxTime
    /\ time' = time + 1
    /\ UNCHANGED <<files, snaps, staging, scratch, testing, lock, th,
                   notes>>

\* ------------------------------------------- remove, rename and move
\* __delete_snapshot, lines 159-162
delete_snapshot_Keep(p) == snaps

delete_snapshot(p) ==
    IF has_snapshot(p) THEN Drop(snaps, snapshot_snap_path(p)) ELSE snaps

\* remove(path), lines 146-149
Remove(t, p) ==
    /\ Idle(t)
    /\ IF relpath(p) \notin DOMAIN files
       THEN /\ Returned(t, "remove", "ResourceNotFoundError")
            /\ UNCHANGED <<files, snaps>>
       ELSE /\ files' = Drop(files, relpath(p))
            /\ snaps' = delete_snapshot(p)
            /\ Done(t, "remove", p)
    /\ UNCHANGED <<staging, scratch, time, testing, lock, notes>>

\* __move_snapshot, lines 195-202: rmtree of the destination, then
\* shutil.move, which raises when the source is no longer there
AfterRmtreeDst(src, dst) ==
    IF snapshot_snap_path(dst) \in DOMAIN snaps
    THEN Drop(snaps, snapshot_snap_path(dst))
    ELSE snaps

move_snapshot_Copy(src, dst) ==
    IF ~has_snapshot(src) THEN snaps
    ELSE Put(AfterRmtreeDst(src, dst), snapshot_snap_path(dst),
             snaps[snapshot_snap_path(src)])

move_snapshot(src, dst) ==
    IF ~has_snapshot(src) THEN snaps
    ELSE IF snapshot_snap_path(src) \in DOMAIN AfterRmtreeDst(src, dst)
    THEN Put(Drop(AfterRmtreeDst(src, dst), snapshot_snap_path(src)),
             snapshot_snap_path(dst), snaps[snapshot_snap_path(src)])
    ELSE AfterRmtreeDst(src, dst)

move_snapshot_raises(src, dst) ==
    /\ has_snapshot(src)
    /\ snapshot_snap_path(src) \notin DOMAIN AfterRmtreeDst(src, dst)

\* the data move of the wrapped filesystem
BaseMoveFiles(src, dst) ==
    Put(Drop(files, relpath(src)), relpath(dst), files[relpath(src)])

\* the record of a rename or move that returned normally; v0, given and
\* arg keep the version of src, and whether dst had a history directory
\* and which version, before the call
MovedFrom(op, src, dst) ==
    IF track
    THEN [NoHandle EXCEPT !.op = op, !.ret = "ok", !.lpath = relpath(src),
                          !.v0 = version(src), !.given = has_snapshot(dst),
                          !.arg = version(dst)]
    ELSE [NoHandle EXCEPT !.op = op, !.ret = "ok"]

\* what rename and move do once the wrapped filesystem has moved the file
Moved(t, op, src, dst) ==
    /\ files' = BaseMoveFiles(src, dst)
    /\ snaps' = move_snapshot(src, dst)
    /\ IF move_snapshot_raises(src, dst)
       THEN Returned(t, op, "IOError")
       ELSE th' = [th EXCEPT ![t] = MovedFrom(op, src, dst)]

\* rename(src, dst), lines 188-193
Rename(t, src, dst) ==
    /\ Idle(t)
    /\ IF relpath(src) \notin DOMAIN files
       THEN /\ Returned(t, "rename", "ResourceNotFoundError")
            /\ UNCHANGED <<files, snaps>>
       ELSE Moved(t, "rename", src, dst)
    /\ UNCHANGED <<staging, scratch, time, testing, lock, notes>>

\* move(src, dst, overwrite), lines 164-169
Move(t, src, dst, overwrite) ==
    /\ Idle(t)
    /\ relpath(src) # relpath(dst)
    /\ IF relpath(src) \notin DOMAIN files
       THEN /\ Returned(t, "move", "ResourceNotFoundError")
            /\ UNCHANGED <<files, snaps>>
       ELSE IF relpath(dst) \in DOMAIN files /\ ~overwrite
       THEN /\ Returned(t, "move", "DestinationExistsError")
            /\ UNCHANGED <<files, snaps>>
       ELSE Moved(t, "move", src, dst)
    /\ UNCHANGED <<staging, scratch, time, testing, lock, notes>>

\* ------------------------------------------------ removedir and movedir
\* makedir of the wrapped filesystem
MakeDir(t, d) ==
    /\ Idle(t)
    /\ d \notin DOMAIN files
    /\ files' = Put(files, d, Dir)
    /\ Returned(t, "makedir", "ok")
    /\ UNCHANGED <<snaps, staging, scratch, time, testing, lock, notes>>

\* lines 153-155: __delete_snapshot for every file walked
SnapsAfterWalk_Keep(d) == snaps

SnapsAfterWalk(d) ==
    [k \in DOMAIN snaps \ {snapshot_snap_path(f) : f \in walkfiles(d)}
       |-> snaps[k]]

\* removedir of the wrapped filesystem with force: the directory and
\* everything in it
BaseRemoveDirFiles(d) ==
    [p \in {q \in DOMAIN files : q # d /\ ~Under(d, q)} |-> files[p]]

\* the record of a removedir; v0 keeps the number of files in the
\* directory that had a history directory, given keeps force
RemovedDir(d, force, ret) ==
    IF track
    THEN [NoHandle EXCEPT
            !.op = "removedir", !.ret = ret, !.lpath = d, !.given = force,
            !.v0 = Cardinality({f \in walkfiles(d) : has_snapshot(f)})]
    ELSE [NoHandle EXCEPT !.op = "removedir", !.ret = ret]

\* removedir(path, force=force), lines 151-157
RemoveDir(t, path, force) ==
    /\ Idle(t)
    /\ IF ~isdir(relpath(path))
       THEN /\ Returned(t, "removedir", "ResourceNotFoundError")
            /\ UNCHANGED <<files, snaps>>
       ELSE /\ snaps' = IF isdirempty(relpath(path)) \/ force
                        THEN SnapsAfterWalk(relpath(path))
                        ELSE snaps
            /\ IF ~isdirempty(relpath(path)) /\ ~force
               THEN /\ th' = [th EXCEPT ![t] =
                                RemovedDir(relpath(path), force,
                                           "DirectoryNotEmptyError")]
                    /\ UNCHANGED files
               ELSE /\ th' = [th EXCEPT ![t] =
                                RemovedDir(relpath(path), force, "ok")]
                    /\ files' = BaseRemoveDirFiles(relpath(path))
    /\ UNCHANGED <<staging, scratch, time, testing, lock, notes>>

\* str.replace(old, new): every occurrence of old, from the left
RECURSIVE replace(_, _, _)
replace(s, old, new) ==
    IF Len(s) < Len(old) \/ Len(old) = 0 THEN s
    ELSE IF StartsWith(s, old)
    THEN new \o replace(SubSeq(s, Len(old) + 1, Len(s)), old, new)
    ELSE <<s[1]>> \o replace(Tail(s), old, new)

\* line 179
NewPath(path, rel_src, rel_dst) == replace(path, rel_src, rel_dst)

\* the orders in which walkfiles can give the files of a set
Orders(S) ==
    {o \in [1..Cardinality(S) -> S] :
        \A i, j \in 1..Cardinality(S) : i # j => o[i] # o[j]}

\* lines 177-184 over the files in the order walked: os.rename of each
\* history directory; it raises OSError when the target is another
\* directory that is not empty.  Gives the backup root and whether the
\* loop raised.
RECURSIVE RenameWalked(_, _, _, _)
RenameWalked(sn, ord, rel_src, rel_dst) ==
    IF Len(ord) = 0 THEN [snaps |-> sn, raised |-> FALSE]
    ELSE LET old == snapshot_snap_path(ord[1])
             new == snapshot_snap_path(NewPath(ord[1], rel_src, rel_dst))
         IN IF old \notin DOMAIN sn
            THEN RenameWalked(sn, Tail(ord), rel_src, rel_dst)
            ELSE IF new = old
            THEN RenameWalked(sn, Tail(ord), rel_src, rel_dst)
            ELSE IF new \in DOMAIN sn /\ Len(sn[new]) > 0
            THEN [snaps |-> sn, raised |-> TRUE]
            ELSE RenameWalked(Put(Drop(sn, old), new, sn[old]), Tail(ord),
                              rel_src, rel_dst)

\* movedir of the wrapped filesystem: the directory and everything in it
BaseMoveDirFiles(src, dst) ==
    [p \in {q \in DOMAIN files : q # src /\ ~Under(src, q)}
          \cup {dst \o SubSeq(q, Len(src) + 1, Len(q)) :
                  q \in {r \in DOMAIN files : r = src \/ Under(src, r)}}
       |-> IF p = dst \/ Under(dst, p)
           THEN files[src \o SubSeq(p, Len(dst) + 1, Len(p))]
           ELSE files[p]]

\* the record of a movedir; lpath keeps src
MovedDir(src, ret) ==
    IF track
    THEN [NoHandle EXCEPT !.op = "movedir", !.ret = ret, !.lpath = src]
    ELSE [NoHandle EXCEPT !.op = "movedir", !.ret = ret]

\* movedir(src, dst), lines 171-186: the histories first, then the
\* directory
MoveDir(t, src, dst) ==
    /\ Idle(t)
    /\ IF ~isdir(relpath(src))
       THEN /\ Returned(t, "movedir", "ResourceNotFoundError")
            /\ UNCHANGED <<files, snaps>>
       ELSE \E ord \in Orders(walkfiles(relpath(src))) :
              LET r == RenameWalked(snaps, ord, relpath(src), relpath(dst))
              IN /\ snaps' = r.snaps
                 /\ IF r.raised
                    THEN /\ Returned(t, "movedir", "OSError")
                         /\ UNCHANGED files
                    ELSE IF relpath(dst) \in DOMAIN files
                    THEN /\ Returned(t, "movedir", "DestinationExistsError")
                         /\ UNCHANGED files
                    ELSE /\ th' = [th EXCEPT ![t] =
                                     MovedDir(relpath(src), "ok")]
                         /\ files' = BaseMoveDirFiles(relpath(src),
                                                      relpath(dst))
    /\ UNCHANGED <<staging, scratch, time, testing, lock, notes>>

Setup ==
    /\ files = <<>>
    /\ snaps = <<>>
    /\ staging = {}
    /\ scratch = {}
    /\ testing \in BOOLEAN
    /\ lock = NoThread
    /\ th = [t \in Threads |-> NoHandle]

Init ==
    Setup /\ time \in StartTimes /\ track = TRUE /\ tried = NotRecorded

InitConc ==
    Setup /\ time \in LateStartTimes /\ track = FALSE /\ tried = NotRecorded

\* the commit attempts are recorded from the start
InitKeys ==
    Setup /\ time \in LateStartTimes /\ track = TRUE /\ tried = {}

\* ------------------------------------------------------- specifications
Args == 0..MaxArg

\* the calls of a client that works on one file
Step(t) ==
    \/ \E p \in InputPaths, m \in Modes : OpenLatest(t, p, m)
    \/ \E p \in InputPaths, m \in Modes, k \in Args : OpenVersion(t, p, m, k)
    \/ \E d \in Data : Write(t, d)
    \/ \E l \in {<<>>, <<"v1">>} : WriteLines(t, l)
    \/ Close(t)
    \/ SnapshotEnter(t)
    \/ SnapshotLinkFails(t)
    \/ \E e \in {Silent, CaseWarning} : SnapshotCommit(t, e)
    \/ SnapshotFails(t, FatalError)
    \/ Sleep(t)
    \/ \E p \in InputPaths : Remove(t, p)

\* one client thread uses the filesystem
Next == Step("t1") \/ Tick

Spec == Init /\ [][Next]_vars

\* a client that writes one of two files and closes it
Writer(t) ==
    \/ \E p \in Paths : OpenLatest(t, p, <<"w">>)
    \/ Write(t, "v1")
    \/ Close(t)
    \/ SnapshotEnter(t)
    \/ \E e \in {Silent} : SnapshotCommit(t, e)
    \/ SnapshotFails(t, FatalError)
    \/ Sleep(t)

\* the client threads write and close concurrently on one instance
NextConc == (\E t \in Threads : Writer(t)) \/ Tick

SpecConc == InitConc /\ [][NextConc]_vars

\* a client that removes, renames and moves the files
Mover(t) ==
    \/ \E p \in Paths : Remove(t, p)
    \/ \E p \in Paths, q \in Paths : Rename(t, p, q)
    \/ \E p \in Paths, q \in Paths, o \in BOOLEAN : Move(t, p, q, o)

\* one thread writes and closes while another removes and moves
NextRace == Writer("t1") \/ SnapshotLinkFails("t1") \/ Mover("t2") \/ Tick

SpecRace == InitConc /\ [][NextRace]_vars

\* one client writes, closes, removes, renames and moves two files
NextMove == Writer("t1") \/ Mover("t1") \/ Tick

SpecMove == Init /\ [][NextMove]_vars

\* a client that writes and removes files whose names differ in a
\* character outside ASCII
KeyClient(t) ==
    \/ \E p \in KeyPaths : OpenLatest(t, p, <<"w">>)
    \/ Write(t, "v1")
    \/ Close(t)
    \/ SnapshotEnter(t)
    \/ SnapshotCommit(t, Silent)
    \/ SnapshotFails(t, FatalError)
    \/ Sleep(t)
    \/ \E p \in KeyPaths : Remove(t, p)

NextKeys == KeyClient("t1") \/ Tick

SpecKeys == InitKeys /\ [][NextKeys]_vars

\* the state after the client has made directory d
InitDir ==
    /\ files = (DirD :> Dir)
    /\ snaps = <<>>
    /\ staging = {}
    /\ scratch = {}
    /\ testing = TRUE
    /\ lock = NoThread
    /\ th = [t \in Threads |-> NoHandle]
    /\ time \in LateStartTimes
    /\ track = TRUE
    /\ tried = NotRecorded

\* a client that makes, removes and moves directories and writes the
\* files of directory d
DirClient(t) ==
    \/ \E p \in DirFiles : Under(DirD, p) /\ OpenLatest(t, p, <<"a">>)
    \/ Write(t, "v1")
    \/ Close(t)
    \/ SnapshotEnter(t)
    \/ SnapshotCommit(t, Silent)
    \/ SnapshotFails(t, FatalError)
    \/ Sleep(t)
    \/ \E d \in Dirs : MakeDir(t, d)
    \/ \E d \in Dirs, force \in BOOLEAN : RemoveDir(t, d, force)
    \/ \E src \in Dirs, dst \in Dirs : MoveDir(t, src, dst)

\* one client works on the files of two directories; the instance is in
\* testing mode, where the session time is the counter of lines 235-238
NextDir == DirClient("t1")

SpecDir == InitDir /\ [][NextDir]_vars

\* ------------------------------------------------------------ claims
Commits(t) == \E e \in {Silent, CaseWarning} : SnapshotCommit(t, e)

Increasing(s) == \A i \in 1..(Len(s) - 1) : StrLess(s[i], s[i + 1])

\* C1: a path without history has version 0, and every successful commit
\* of a path raises its version by exactly one, to the number of increments
\* its repository holds; the identifiers listed are pairwise distinct and
\* in strictly increasing order.  So N successful write-close cycles from
\* no history give version N and N increasing identifiers.
C1_CommitRaisesVersionByOne ==
    [][\A t \in Threads, p \in Paths :
         /\ ~has_snapshot(p) => version(p) = 0
         /\ (InSnapshot(t) /\ th[t].path = p /\ Commits(t)) =>
              \A after \in {list_versions(p)'} :
                 /\ Len(after) = version(p) + 1
                 /\ Len(after) = Len(Repo(p))'
                 /\ Increasing(after)
                 /\ \A i, j \in 1..Len(after) :
                      i # j => after[i] # after[j]]_vars

\* C1 witness: two write-close cycles on a.txt have committed
C1_Witness ==
    /\ version(PathA) = 2
    /\ Len(Repo(PathA)) = 2
    /\ th["t1"].op = "close"
    /\ th["t1"].ret = "ok"

\* close() of thread t returns normally in this step
CloseReturns(t) ==
    /\ th[t].pc # "idle"
    /\ th'[t].pc = "idle"
    /\ th'[t].op = "close"
    /\ th'[t].ret = "ok"

\* C2: when close() returns normally and the live content of the path is
\* not the text it held before the open, the version of the path is one
\* greater than before the open.
C2_ChangedContentGetsVersion ==
    [][\A t \in Threads, p \in Paths :
         (/\ CloseReturns(t)
          /\ th[t].lpath = p
          /\ th[t].c0 \in Data
          /\ Content(p)' # th[t].c0)
         => version(p)' = th[t].v0 + 1]_vars

\* what a read through the handle thread t has just been given returns
ReadBack(t) ==
    IF th[t].temp THEN th[t].data ELSE Content(th[t].lpath)

\* C3: open(P, 'r', version=k) with 1 <= k <= version(P) gives a handle
\* whose content is what the k-th oldest successful commit of P recorded.
C3_OrdinalReadsKthCommit ==
    [][\A t \in Threads : (Idle(t) /\ th'[t].given) =>
       \A p \in InputPaths, k \in Args :
         (/\ th'[t].arg = k
          /\ 1 <= k /\ k <= version(p)
          /\ OpenVersion(t, p, <<"r">>, k))
         => /\ th'[t].pc = "open"
            /\ ReadBack(t)' = Repo(p)[k].data]_vars

\* C4: close() invokes snapshot at most twice, and only once the wrapped
\* file is closed; an unmodified handle ends close() without a commit; a
\* first SnapshotError leads to the sleep and then to one retry; a second
\* SnapshotError ends close() with SnapshotError.
C4_CommitAtMostTwice ==
    [][\A t \in Threads :
         /\ th'[t].tries <= 2
         /\ th'[t].tries > th[t].tries => th[t].closed /\ th[t].modified
         /\ (Close(t) /\ ~th[t].modified)
            => th'[t].pc = "idle" /\ th'[t].ret = "ok"
         /\ (Close(t) /\ th[t].modified)
            => th'[t].pc = "commit1" /\ th'[t].closed /\ th'[t].tries = 0
         /\ (SnapshotFails(t, FatalError) /\ th[t].tries = 1)
            => th'[t].pc = "sleep"
         /\ (th[t].pc = "sleep" /\ th'[t].pc # "sleep")
            => /\ th'[t].pc = "commit2"
               /\ th'[t].tries = 1
               /\ ~testing => time' > time
         /\ (SnapshotFails(t, FatalError) /\ th[t].tries = 2)
            => th'[t].pc = "idle" /\ th'[t].ret = "SnapshotError"]_vars

\* C4 witness: both commits of a close() raised SnapshotError
C4_Witness ==
    /\ th["t1"].op = "close"
    /\ th["t1"].ret = "SnapshotError"

\* C5: open(P, version=k) with k < 1 or k > version(P) raises
\* ResourceNotFoundError, invokes no restore and creates no scratch
\* directory.
C5_OutOfRangeRefused ==
    [][\A t \in Threads : (Idle(t) /\ th'[t].given) =>
       \A p \in InputPaths, m \in Modes, k \in Args :
         (/\ th'[t].arg = k
          /\ k < 1 \/ k > version(p)
          /\ OpenVersion(t, p, m, k))
         => /\ th'[t].pc = "idle"
            /\ th'[t].ret = "ResourceNotFoundError"
            /\ ~th'[t].tool
            /\ scratch' = scratch
            /\ files' = files]_vars

\* C5 witness: an ordinal above the version of a path with history was
\* refused
C5_Witness ==
    /\ th["t1"].op = "open"
    /\ th["t1"].given
    /\ th["t1"].ret = "ResourceNotFoundError"
    /\ version(th["t1"].lpath) >= 1
    /\ th["t1"].arg > version(th["t1"].lpath)

\* C6: open(P, mode, version=k) with 1 <= k < version(P) returns, for every
\* mode, a handle marked temporary that carries an existing restore
\* directory.
C6_OlderVersionGivesTempHandle ==
    [][\A t \in Threads : (Idle(t) /\ th'[t].given) =>
       \A p \in InputPaths, m \in Modes, k \in Args :
         (/\ th'[t].arg = k
          /\ 1 <= k /\ k < version(p)
          /\ OpenVersion(t, p, m, k))
         => /\ th'[t].pc = "open"
            /\ th'[t].ret = "handle"
            /\ th'[t].temp
            /\ th'[t].remove \in scratch']_vars

\* C7: open(P, mode, version=k) with k = version(P) >= 1 does what
\* open(P, mode) does: no restore, no scratch directory, the same effect on
\* the live file, and either the same error or a handle that is not
\* temporary and reads the live file.
C7_LatestOrdinalOpensLive ==
    [][\A t \in Threads : (Idle(t) /\ th'[t].given) =>
       \A p \in InputPaths, m \in Modes, k \in Args :
         (/\ th'[t].arg = k
          /\ k = version(p) /\ k >= 1
          /\ OpenVersion(t, p, m, k))
         => /\ ~th'[t].tool
            /\ scratch' = scratch
            /\ IF BaseOpenFails(p, m)
               THEN /\ th'[t].pc = "idle"
                    /\ th'[t].ret = "ResourceNotFoundError"
                    /\ files' = files
               ELSE /\ th'[t].pc = "open"
                    /\ ~th'[t].temp
                    /\ th'[t].remove = NoTemp
                    /\ th'[t].path = relpath(p)
                    /\ files' = BaseOpenFiles(p, m)
                    /\ ReadBack(t)' = Content(relpath(p))']_vars

\* C7 witness: a handle opened with the ordinal of the latest version
C7_Witness ==
    /\ th["t1"].pc = "open"
    /\ th["t1"].given
    /\ th["t1"].arg >= 1
    /\ th["t1"].arg = th["t1"].v0
    /\ ~th["t1"].temp

\* C8: at most one thread is inside snapshot() at any time.
C8_OneThreadInSnapshot ==
    Cardinality({t \in Threads : InSnapshot(t)}) <= 1

\* C8 witness: one thread is inside snapshot() while the other has closed
\* a modified handle and waits to enter
C8_Witness ==
    /\ InSnapshot("t1")
    /\ th["t2"].pc \in {"commit1", "commit2"}

\* C9: while a thread is inside snapshot() (it holds the instance lock and
\* does not move), no other thread changes the backup root.
C9_NoWriteDuringCommit ==
    [][\A t \in Threads :
         (InSnapshot(t) /\ th'[t] = th[t]) => snaps' = snaps]_vars

\* C10: whenever no thread is inside snapshot(), no staging directory
\* exists.
C10_NoStagingOutsideCommit ==
    (\A t \in Threads : ~InSnapshot(t)) => staging = {}

\* a thread holds an open handle on a restored copy
HoldsRestored(t) == th[t].pc = "open" /\ th[t].temp

\* C11: close() of a handle on a restored copy deletes the restore
\* directory the handle carries, modified or not and before any commit;
\* when no thread holds a handle on a restored copy, the scratch area has
\* no restore directory, whatever the commits that followed did.
C11_CloseDeletesRestoreDir ==
    [][/\ \A t \in Threads :
            (th[t].temp /\ Close(t)) => th[t].remove \notin scratch'
       /\ (\A t \in Threads : ~HoldsRestored(t)') => scratch' = {}]_vars

\* C11 witness: a modified handle on a restored copy has been closed, its
\* commit is still to come, and the restore directory is gone
C11_Witness ==
    /\ th["t1"].pc = "commit1"
    /\ th["t1"].temp
    /\ th["t1"].modified
    /\ scratch = {}

\* C12: when remove(P) returns normally, P has no history directory and
\* lists no version, whatever number of versions it had before.
C12_RemoveDeletesHistory ==
    [][\A t \in Threads : (Idle(t) /\ th'[t].op = "remove") =>
       \A p \in InputPaths :
         (th'[t].ret = "ok" /\ Remove(t, p))
         => \A after \in {list_versions(p)'} :
              /\ ~has_snapshot(p)'
              /\ after = <<>>
              /\ version(p)' = 0]_vars

\* C12 witness: remove returned normally for a path that had two versions
C12_Witness ==
    /\ th["t1"].op = "remove"
    /\ th["t1"].ret = "ok"
    /\ th["t1"].v0 >= 2
    /\ version(th["t1"].lpath) = 0

\* rename(src, dst) or move(src, dst) of thread t
Relocates(t, src, dst) ==
    \/ Rename(t, src, dst)
    \/ \E o \in BOOLEAN : Move(t, src, dst, o)

\* thread t returns normally from rename or move in this step
RelocateReturns(t) ==
    /\ Idle(t)
    /\ th'[t].op \in {"rename", "move"}
    /\ th'[t].ret = "ok"

\* C13: when rename(P, Q) or move(P, Q) returns normally and Q had no
\* history directory, Q lists exactly the versions P listed before the
\* call and P has no history directory and version 0.
C13_RelocateCarriesHistory ==
    [][\A t \in Threads : RelocateReturns(t) =>
       \A p \in Paths, q \in Paths :
         (~has_snapshot(q) /\ Relocates(t, p, q))
         => \A before \in {list_versions(p)}, after \in {list_versions(q)'} :
              /\ after = before
              /\ Len(after) = version(p)
              /\ version(p)' = 0
              /\ ~has_snapshot(p)']_vars

\* C13 witness: a path with two versions was renamed or moved to a path
\* without history, which now has the two versions
C13_Witness ==
    /\ th["t1"].op \in {"rename", "move"}
    /\ th["t1"].ret = "ok"
    /\ th["t1"].lpath = PathA
    /\ th["t1"].v0 = 2
    /\ ~th["t1"].given
    /\ version(PathB) = 2

\* the identifiers listed for a path
Ids(p) == {list_versions(p)[i] : i \in 1..version(p)}

\* C14: when rename(src, dst) or move(src, dst) returns normally and dst
\* had a history directory, dst has the version src had before; when src
\* has no history directory of its own (so that every identifier listed
\* before belongs to the old destination), dst lists none of the
\* identifiers it listed before.
C14_RelocateDiscardsDestination ==
    [][\A t \in Threads : RelocateReturns(t) =>
       \A p \in Paths, q \in Paths :
         (has_snapshot(q) /\ Relocates(t, p, q))
         => \A before \in {Ids(q)}, after \in {Ids(q)'} :
              /\ version(q)' = version(p)
              /\ ~has_snapshot(p) => before \cap after = {}]_vars

\* C15: removedir(D, force) on a directory that is empty or with force
\* returns normally and leaves no file that was in D or below it with a
\* history directory; on a directory that is not empty and without force
\* it raises the wrapped filesystem's DirectoryNotEmptyError and changes
\* neither the backup root nor the files.
C15_RemoveDirDeletesHistories ==
    [][\A t \in Threads : (Idle(t) /\ th'[t].op = "removedir") =>
       \A d \in Dirs, force \in BOOLEAN :
         (isdir(d) /\ RemoveDir(t, d, force))
         => IF isdirempty(d) \/ force
            THEN /\ th'[t].ret = "ok"
                 /\ \A f \in walkfiles(d) : ~has_snapshot(f)'
                 /\ \A f \in DOMAIN files' : f # d /\ ~Under(d, f)
            ELSE /\ th'[t].ret = "DirectoryNotEmptyError"
                 /\ snaps' = snaps
                 /\ files' = files]_vars

\* C15 witness: removedir with force returned normally for a directory
\* in which two files had history directories
C15_Witness ==
    /\ th["t1"].op = "removedir"
    /\ th["t1"].ret = "ok"
    /\ th["t1"].given
    /\ th["t1"].v0 = 2
    /\ \A f \in DirFiles : ~has_snapshot(f)

\* C16: a path snapshot() was never called with has no history directory
\* and version 0, whatever was done with other paths.
C16_UncommittedHasNoHistory ==
    \A p \in KeyPaths :
        p \notin tried => ~has_snapshot(p) /\ version(p) = 0

\* the identifiers of the increments of a path in the order in which the
\* commits added them to its repository
CommitOrder(p) == [i \in 1..Len(Repo(p)) |-> ToStr(Repo(p)[i].id)]

\* C17: in every state list_versions(P) lists the identifiers of P in
\* the order in which their commits happened.
C17_ListedInCommitOrder ==
    \A p \in InputPaths : list_versions(p) = CommitOrder(p)

\* a path below the scratch root
InScratch(p) == StartsWith(p, <<"/", "tmp", "/">>)

\* C18: every call of snapshot() made by close() passes the logical path
\* that was given to open, never a path in the scratch area, for handles
\* on the live file and on restored copies.
C18_CommitOnLogicalPath ==
    [][\A t \in Threads :
         SnapshotEnter(t) => /\ th[t].path = th[t].lpath
                             /\ ~InScratch(th[t].path)]_vars

\* C19: whenever no call is in progress, a path that has a history
\* directory has at least one recorded version.
C19_HistoryDirHasVersion ==
    (\A t \in Threads : Idle(t)) =>
        \A p \in InputPaths : has_snapshot(p) => version(p) >= 1

\* the path of file f of directory src once src has become dst
Relocated(f, src, dst) == dst \o SubSeq(f, Len(src) + 1, Len(f))

\* C20: when movedir(src, dst) returns normally, every file that was in
\* src and had a history directory has lost it, and the file's path with
\* its leading src replaced by dst lists the versions the file listed
\* before.
C20_MoveDirCarriesHistories ==
    [][\A t \in Threads :
         (Idle(t) /\ th'[t].op = "movedir" /\ th'[t].ret = "ok") =>
       \A src \in Dirs, dst \in Dirs :
         MoveDir(t, src, dst) =>
           \A f \in walkfiles(src) :
             has_snapshot(f) =>
               \A before \in {list_versions(f)},
                  after \in {list_versions(Relocated(f, src, dst))'} :
                    /\ after = before
                    /\ ~has_snapshot(f)']_vars

====
